---- MODULE Spec2Model ----
(***************************************************************************)
(* Model of the timetable generator of src/app/page.tsx: the React state   *)
(* of SchedulerApp (schedule, isGenerating, error), the generate request   *)
(* and the greedy assignment pass of buildSchedule.                        *)
(*                                                                         *)
(* The program compiles one catalog in (CLASSES, DAYS, PERIODS, SUBJECTS,  *)
(* TEACHERS).  buildSchedule is modelled over a family of catalogs cut     *)
(* from that data: the first classes, days, subjects and teaching periods  *)
(* and, per subject, the first teachers of its list (possibly none, and    *)
(* possibly no entry in TEACHERS at all).                                  *)
(* Object keys are strings, as in JavaScript, so period keys are "1".."6", *)
(* "Recess" and "Lunch".                                                   *)
(***************************************************************************)
EXTENDS Integers, Sequences, FiniteSets

\* ---------------------------------------------------------------- bounds
MaxDays == 2
MaxSubjects == 3
MaxTrials == 14
MaxRequests == 3
MaxUITrials == 4

\* ------------------------------------------------------- the program data
DAYS == <<"Monday", "Tuesday", "Wednesday", "Thursday", "Friday">>

\* Mutant: the layout without Recess.
PERIODS_NoRecess == <<"1", "2", "3", "4", "Lunch", "5", "6">>

PERIODS == <<"1", "2", "Recess", "3", "4", "Lunch", "5", "6">>

SUBJECTS == <<"Math", "Science", "English", "History", "Art", "PE">>

TEACHERS ==
  [s \in {"Math", "Science", "English", "History", "Art", "PE"} |->
     CASE s = "Math"    -> <<"Mr. Smith", "Ms. Davis">>
       [] s = "Science" -> <<"Dr. Jones", "Mr. Wilson">>
       [] s = "English" -> <<"Ms. Taylor", "Mr. Brown">>
       [] s = "History" -> <<"Mrs. White", "Mr. Green">>
       [] s = "Art"     -> <<"Ms. Black">>
       [] s = "PE"      -> <<"Coach Carter">>]

CLASSES == <<"Grade 10-A", "Grade 10-B", "Grade 11-A">>

\* The teaching periods buildSchedule walks: [1, 2, 3, 4, 5, 6].
TEACHING_PERIODS == <<"1", "2", "3", "4", "5", "6">>

\* ---------------------------------------------------------------- helpers
Min(a, b) == IF a < b THEN a ELSE b

Range(f) == {f[i] : i \in DOMAIN f}

IsBreak(period) == period = "Recess" \/ period = "Lunch"

\* Index of the first occurrence of x in sequence q (0 when absent).
IndexOf(q, x) ==
  IF \E i \in 1..Len(q) : q[i] = x
  THEN CHOOSE i \in 1..Len(q) : q[i] = x /\ \A j \in 1..(i - 1) : q[j] # x
  ELSE 0

\* All orderings of the elements of sequence q.
Orderings(q) ==
  {p \in [1..Len(q) -> Range(q)] : \A x \in Range(q) : \E i \in 1..Len(q) : p[i] = x}

\* ------------------------------------------------------------ slot values
\* A slot is 'Free', 'Recess', 'Lunch' or an object {subject, teacher}; kind
\* is what `typeof slot` and the string's value tell apart.
Free == [kind |-> "Free"]

BreakMarker(period) == [kind |-> period]

SlotAssignment(subject, teacher) ==
  [kind |-> "object", subject |-> subject, teacher |-> teacher]

IsObject(slot) == slot.kind = "object"

\* null, for the schedule state and for the grid not yet created
NoSchedule == <<>>

NoError == "null"

\* --------------------------------------------------------------- catalogs
\* A catalog has the first nc classes, nd days, ns subjects and np teaching
\* periods of the program's data; subject i has the first k[i] teachers of its
\* list, or no entry in TEACHERS when k[i] = -1.  Subjects differ only by
\* their lists and every ordering of them is shuffled, so the counts are taken
\* non-increasing along SUBJECTS (as they are in the program's TEACHERS).
\* The layout of a catalog with n teaching periods: PERIODS up to period n.
Layout(n) == SubSeq(PERIODS, 1, IndexOf(PERIODS, TEACHING_PERIODS[n]))

MkCatalog(nc, nd, ns, np, k) ==
  [classes  |-> SubSeq(CLASSES, 1, nc),
   days     |-> SubSeq(DAYS, 1, nd),
   subjects |-> SubSeq(SUBJECTS, 1, ns),
   teachers |-> [s \in {SUBJECTS[i] : i \in {j \in 1..ns : k[j] >= 0}} |->
                   SubSeq(TEACHERS[s], 1, k[IndexOf(SUBJECTS, s)])],
   periods  |-> SubSeq(TEACHING_PERIODS, 1, np),
   layout   |-> Layout(np)]

Catalogs ==
  {MkCatalog(nc, nd, ns, np, k) :
     <<nc, nd, ns, np, k>> \in
       {x \in (1..Len(CLASSES)) \X (1..Min(MaxDays, Len(DAYS)))
              \X (1..Min(MaxSubjects, Len(SUBJECTS))) \X (1..Len(TEACHING_PERIODS))
              \X [1..Min(MaxSubjects, Len(SUBJECTS)) -> -1..2] :
          /\ x[1] * x[2] * x[4] * x[3] <= MaxTrials
          /\ \A i \in DOMAIN x[5] :
               /\ x[5][i] <= Len(TEACHERS[SUBJECTS[i]])
               /\ i > x[3] => x[5][i] = -1
               /\ i > 1 => x[5][i] <= x[5][i - 1]}}

\* The candidate trials one pass over a catalog can make at most.
Trials(cat) ==
  Len(cat.classes) * Len(cat.days) * Len(cat.periods) * Len(cat.subjects)

\* The catalogs successive generate requests are followed over.
UICatalogs == {cat \in Catalogs : Trials(cat) <= MaxUITrials}

\* ------------------------------------------------------------------ state
VARIABLES
  catalog,        \* the catalog the build runs over (never changes)
  schedule,       \* useState: the schedule shown, or null
  isGenerating,   \* useState
  error,          \* useState: the message shown, or null
  pc,             \* "idle", "pending" (timer armed), "shuffle", "assign",
                  \* "return", "catch"
  budget,         \* generate requests still to be followed
  newSchedule,    \* buildSchedule's grid under construction
  cls, day, period,          \* loop positions (indexes)
  dailySubjects, subjectIndex,
  assigned, attempts,        \* the locals of the period last processed
  log,            \* history: the periods processed since the last shuffle
  visits,         \* history: how often each (class, day, period) was processed
  hist            \* history: the rotations drawn by the build under way, the
                  \* rotations and result of the build returned before it,
                  \* whether the build under way has drawn the same rotations,
                  \* and whether two successive builds that drew different
                  \* rotations returned different schedules

vars == <<catalog, schedule, isGenerating, error, pc, budget, newSchedule,
          cls, day, period, dailySubjects, subjectIndex, assigned, attempts,
          log, visits, hist>>

N == Len(catalog.subjects)

\* ------------------------------------------------------- buildSchedule
\* Mutant: the break test is dropped and every period starts 'Free'.
EmptyGrid_NoBreaks(cat) ==
  [c \in Range(cat.classes) |->
    [d \in Range(cat.days) |-> [p \in Range(cat.layout) |-> Free]]]

\* Lines 71-84: every class, day and period of the layout gets its entry.
EmptyGrid(cat) ==
  [c \in Range(cat.classes) |->
    [d \in Range(cat.days) |->
      [p \in Range(cat.layout) |->
        IF IsBreak(p) THEN BreakMarker(p) ELSE Free]]]

\* Lines 89-95, from class index i on: false at the first class whose slot at
\* (day, period) is an object with this teacher.
RECURSIVE CanAssignFrom(_, _, _, _, _, _)
CanAssignFrom(cat, sched, i, teacher, d, p) ==
  IF i > Len(cat.classes) THEN TRUE
  ELSE LET slot == sched[cat.classes[i]][d][p]
       IN IF IsObject(slot) /\ slot.teacher = teacher
          THEN FALSE
          ELSE CanAssignFrom(cat, sched, i + 1, teacher, d, p)

\* Mutant: the scan of the classes is skipped and every teacher is available.
canAssignTeacher_NoScan(cat, sched, teacher, d, p) == TRUE

\* Mutant: the scan starts at the second class.
canAssignTeacher_SkipFirst(cat, sched, teacher, d, p) ==
  CanAssignFrom(cat, sched, 2, teacher, d, p)

\* Mutant: the period is left out of the lookup, a teacher held on this day at
\* any period counts as taken.
canAssignTeacher_AnyPeriod(cat, sched, teacher, d, p) ==
  \A i \in 1..Len(cat.periods) :
    CanAssignFrom(cat, sched, 1, teacher, d, cat.periods[i])

\* Mutant: the day is left out of the lookup, a teacher held at this period
\* on any day counts as taken.
canAssignTeacher_AnyDay(cat, sched, teacher, d, p) ==
  \A i \in 1..Len(cat.days) : CanAssignFrom(cat, sched, 1, teacher, cat.days[i], p)

canAssignTeacher(cat, sched, teacher, d, p) ==
  CanAssignFrom(cat, sched, 1, teacher, d, p)

\* Mutant: the loop has no break, so the last available teacher wins.
RECURSIVE FindTeacher_PreferLast(_, _, _, _, _, _)
FindTeacher_PreferLast(cat, sched, availableTeachers, j, d, p) ==
  IF j > Len(availableTeachers) THEN 0
  ELSE LET later == FindTeacher_PreferLast(cat, sched, availableTeachers, j + 1, d, p)
       IN IF later # 0 THEN later
          ELSE IF canAssignTeacher(cat, sched, availableTeachers[j], d, p) THEN j
          ELSE 0

\* Lines 114-120, from list index j on: the index of the first teacher of the
\* list that can be assigned, 0 when the list is exhausted.
RECURSIVE FindTeacher(_, _, _, _, _, _)
FindTeacher(cat, sched, availableTeachers, j, d, p) ==
  IF j > Len(availableTeachers) THEN 0
  ELSE IF canAssignTeacher(cat, sched, availableTeachers[j], d, p) THEN j
  ELSE FindTeacher(cat, sched, availableTeachers, j + 1, d, p)

\* Mutant: the rotation index is one too far.
Candidate_OffByOne(daily, sIndex, att) ==
  daily[((sIndex + att + 1) % Len(daily)) + 1]

\* Line 110: the candidate subject of an attempt.
Candidate(daily, sIndex, att) == daily[((sIndex + att) % Len(daily)) + 1]

\* Mutant: the subject written is the one the pointer is at, not the
\* candidate whose teacher was found.
RECURSIVE WhileLoop_PointerSubject(_, _, _, _, _, _, _, _)
WhileLoop_PointerSubject(cat, sched, c, d, p, daily, sIndex, att) ==
  IF ~(att < Len(daily))
  THEN [sched |-> sched, assigned |-> FALSE, attempts |-> att, thrown |-> FALSE]
  ELSE LET subject == Candidate(daily, sIndex, att)
           pointed == Candidate(daily, sIndex, 0)
       IN IF subject \notin DOMAIN cat.teachers
          THEN [sched |-> sched, assigned |-> FALSE, attempts |-> att,
                thrown |-> TRUE]
          ELSE LET availableTeachers == cat.teachers[subject]
                   j == FindTeacher(cat, sched, availableTeachers, 1, d, p)
               IN IF j # 0
                  THEN [sched |-> [sched EXCEPT ![c][d][p] =
                                     SlotAssignment(pointed, availableTeachers[j])],
                        assigned |-> TRUE, attempts |-> att + 1, thrown |-> FALSE]
                  ELSE WhileLoop_PointerSubject(cat, sched, c, d, p, daily, sIndex,
                                                att + 1)

\* Mutant: the loop condition is attempts <= length, one candidate too many.
RECURSIVE WhileLoop_OneTooMany(_, _, _, _, _, _, _, _)
WhileLoop_OneTooMany(cat, sched, c, d, p, daily, sIndex, att) ==
  IF ~(att <= Len(daily))
  THEN [sched |-> sched, assigned |-> FALSE, attempts |-> att, thrown |-> FALSE]
  ELSE LET subject == Candidate(daily, sIndex, att)
       IN IF subject \notin DOMAIN cat.teachers
          THEN [sched |-> sched, assigned |-> FALSE, attempts |-> att,
                thrown |-> TRUE]
          ELSE LET availableTeachers == cat.teachers[subject]
                   j == FindTeacher(cat, sched, availableTeachers, 1, d, p)
               IN IF j # 0
                  THEN [sched |-> [sched EXCEPT ![c][d][p] =
                                     SlotAssignment(subject, availableTeachers[j])],
                        assigned |-> TRUE, attempts |-> att + 1, thrown |-> FALSE]
                  ELSE WhileLoop_OneTooMany(cat, sched, c, d, p, daily, sIndex,
                                            att + 1)

\* Mutant: the loop condition stops one candidate short.
RECURSIVE WhileLoop_OneTooFew(_, _, _, _, _, _, _, _)
WhileLoop_OneTooFew(cat, sched, c, d, p, daily, sIndex, att) ==
  IF ~(att < Len(daily) - 1)
  THEN [sched |-> sched, assigned |-> FALSE, attempts |-> att, thrown |-> FALSE]
  ELSE LET subject == Candidate(daily, sIndex, att)
       IN IF subject \notin DOMAIN cat.teachers
          THEN [sched |-> sched, assigned |-> FALSE, attempts |-> att,
                thrown |-> TRUE]
          ELSE LET availableTeachers == cat.teachers[subject]
                   j == FindTeacher(cat, sched, availableTeachers, 1, d, p)
               IN IF j # 0
                  THEN [sched |-> [sched EXCEPT ![c][d][p] =
                                     SlotAssignment(subject, availableTeachers[j])],
                        assigned |-> TRUE, attempts |-> att + 1, thrown |-> FALSE]
                  ELSE WhileLoop_OneTooFew(cat, sched, c, d, p, daily, sIndex,
                                           att + 1)

\* Lines 109-122: the while loop, entered with `att` attempts made.  Yields the
\* grid, assigned and attempts as the loop leaves them; thrown when
\* TEACHERS[subject] is undefined and the for-of of line 114 raises a TypeError.
RECURSIVE WhileLoop(_, _, _, _, _, _, _, _)
WhileLoop(cat, sched, c, d, p, daily, sIndex, att) ==
  IF ~(att < Len(daily))
  THEN [sched |-> sched, assigned |-> FALSE, attempts |-> att, thrown |-> FALSE]
  ELSE LET subject == Candidate(daily, sIndex, att)
       IN IF subject \notin DOMAIN cat.teachers
          THEN [sched |-> sched, assigned |-> FALSE, attempts |-> att,
                thrown |-> TRUE]
          ELSE LET availableTeachers == cat.teachers[subject]
                   j == FindTeacher(cat, sched, availableTeachers, 1, d, p)
               IN IF j # 0
                  THEN [sched |-> [sched EXCEPT ![c][d][p] =
                                     SlotAssignment(subject, availableTeachers[j])],
                        assigned |-> TRUE, attempts |-> att + 1, thrown |-> FALSE]
                  ELSE WhileLoop(cat, sched, c, d, p, daily, sIndex, att + 1)

\* Mutant: the pointer moves past every candidate tried, not by one.
ProcessPeriod_SkipTried(cat, sched, c, d, p, daily, sIndex) ==
  LET r == WhileLoop(cat, sched, c, d, p, daily, sIndex, 0)
  IN IF r.thrown
     THEN [sched |-> r.sched, assigned |-> FALSE, attempts |-> r.attempts,
           subjectIndex |-> sIndex, thrown |-> TRUE]
     ELSE IF r.assigned
     THEN [sched |-> r.sched, assigned |-> TRUE, attempts |-> r.attempts,
           subjectIndex |-> sIndex + r.attempts, thrown |-> FALSE]
     ELSE [sched |-> [r.sched EXCEPT ![c][d][p] = Free], assigned |-> FALSE,
           attempts |-> r.attempts, subjectIndex |-> sIndex, thrown |-> FALSE]

\* Mutant: the fallback gives the period up for every class, clearing what the
\* classes before had been assigned there.
ProcessPeriod_FreeWholePeriod(cat, sched, c, d, p, daily, sIndex) ==
  LET r == WhileLoop(cat, sched, c, d, p, daily, sIndex, 0)
  IN IF r.thrown
     THEN [sched |-> r.sched, assigned |-> FALSE, attempts |-> r.attempts,
           subjectIndex |-> sIndex, thrown |-> TRUE]
     ELSE IF r.assigned
     THEN [sched |-> r.sched, assigned |-> TRUE, attempts |-> r.attempts,
           subjectIndex |-> sIndex + 1, thrown |-> FALSE]
     ELSE [sched |-> [c2 \in DOMAIN r.sched |->
                       [r.sched[c2] EXCEPT ![d][p] = Free]],
           assigned |-> FALSE, attempts |-> r.attempts,
           subjectIndex |-> sIndex, thrown |-> FALSE]

\* Lines 106-129: one period of one (class, day).
ProcessPeriod(cat, sched, c, d, p, daily, sIndex) ==
  LET r == WhileLoop(cat, sched, c, d, p, daily, sIndex, 0)
  IN IF r.thrown
     THEN [sched |-> r.sched, assigned |-> FALSE, attempts |-> r.attempts,
           subjectIndex |-> sIndex, thrown |-> TRUE]
     ELSE IF r.assigned
     THEN [sched |-> r.sched, assigned |-> TRUE, attempts |-> r.attempts,
           subjectIndex |-> sIndex + 1, thrown |-> FALSE]
     ELSE [sched |-> [r.sched EXCEPT ![c][d][p] = Free], assigned |-> FALSE,
           attempts |-> r.attempts, subjectIndex |-> sIndex, thrown |-> FALSE]

\* ---------------------------------------------------------------- history
NoHistory == [rots |-> <<>>, prev |-> <<>>, same |-> FALSE, differed |-> FALSE]

\* The history as a generate request starts: the build before it, when it
\* returned the schedule shown and its rotations were kept, is what the build
\* to come is compared with.
Requested ==
  LET done == IF error = NoError /\ schedule # NoSchedule /\ hist.rots # <<>>
              THEN <<[rots |-> hist.rots, result |-> schedule]>>
              ELSE <<>>
  IN [rots |-> <<>>, prev |-> done, same |-> done # <<>>,
      differed |-> \/ hist.differed
                   \/ /\ hist.prev # <<>> /\ done # <<>> /\ ~hist.same
                      /\ schedule # hist.prev[1].result]

\* The number of the (class, day) the loops of lines 99-100 are at.
ShuffleNo == (cls - 1) * Len(catalog.days) + day

\* The history once `daily` is drawn for the current (class, day).  The
\* rotations are kept while a later request can follow.
Drawn(daily) ==
  [rots |-> IF budget > 0 THEN Append(hist.rots, daily) ELSE hist.rots,
   prev |-> hist.prev,
   same |-> hist.same /\ hist.prev[1].rots[ShuffleNo] = daily,
   differed |-> hist.differed]

\* ------------------------------------------------------------------- Init
\* The component as mounted, followed for one generate request.
Init ==
  /\ catalog \in Catalogs
  /\ schedule = NoSchedule
  /\ isGenerating = FALSE
  /\ error = NoError
  /\ pc = "idle"
  /\ budget = 1
  /\ newSchedule = NoSchedule
  /\ cls = 0 /\ day = 0 /\ period = 0
  /\ dailySubjects = <<>>
  /\ subjectIndex = 0
  /\ assigned = FALSE
  /\ attempts = 0
  /\ log = <<>>
  /\ visits = <<>>
  /\ hist = NoHistory

\* ---------------------------------------------------------------- actions
\* Lines 50-53 and 55: the click on the (enabled) button; the timer is armed.
generateSchedule ==
  /\ pc = "idle"
  /\ ~isGenerating
  /\ budget > 0
  /\ budget' = budget - 1
  /\ isGenerating' = TRUE
  /\ error' = NoError
  /\ pc' = "pending"
  /\ hist' = Requested
  /\ UNCHANGED <<catalog, schedule, newSchedule, cls, day, period,
                 dailySubjects, subjectIndex, assigned, attempts, log, visits>>

\* Mutant: the grid is created once and later builds write into what the build
\* before left in it.
InitializeGrid_Reuse ==
  /\ pc = "pending"
  /\ newSchedule' = IF newSchedule = NoSchedule THEN EmptyGrid(catalog)
                    ELSE newSchedule
  /\ cls' = 1 /\ day' = 1 /\ period' = 0
  /\ dailySubjects' = <<>>
  /\ subjectIndex' = 0
  /\ assigned' = FALSE
  /\ attempts' = 0
  /\ log' = <<>>
  /\ visits' = [x \in Range(catalog.classes) \X Range(catalog.days)
                       \X Range(catalog.periods) |-> 0]
  /\ pc' = "shuffle"
  /\ UNCHANGED <<catalog, schedule, isGenerating, error, budget, hist>>

\* Lines 56-57 and 69-84: the timer fires, buildSchedule creates the grid.
InitializeGrid ==
  /\ pc = "pending"
  /\ newSchedule' = EmptyGrid(catalog)
  /\ cls' = 1 /\ day' = 1 /\ period' = 0
  /\ dailySubjects' = <<>>
  /\ subjectIndex' = 0
  /\ assigned' = FALSE
  /\ attempts' = 0
  /\ log' = <<>>
  /\ visits' = [x \in Range(catalog.classes) \X Range(catalog.days)
                       \X Range(catalog.periods) |-> 0]
  /\ pc' = "shuffle"
  /\ UNCHANGED <<catalog, schedule, isGenerating, error, budget, hist>>

\* Mutant: the pointer is declared outside the loops and not reset per day.
Shuffle_KeepPointer ==
  /\ pc = "shuffle"
  /\ dailySubjects' \in Orderings(catalog.subjects)
  /\ period' = 1
  /\ log' = <<>>
  /\ pc' = "assign"
  /\ hist' = Drawn(dailySubjects')
  /\ UNCHANGED <<catalog, schedule, isGenerating, error, budget, newSchedule,
                 cls, day, assigned, attempts, visits, subjectIndex>>

\* Lines 99-103: the next (class, day) starts with some ordering of SUBJECTS
\* (the sort by a random comparator) and the pointer at 0.
Shuffle ==
  /\ pc = "shuffle"
  /\ dailySubjects' \in Orderings(catalog.subjects)
  /\ subjectIndex' = 0
  /\ period' = 1
  /\ log' = <<>>
  /\ pc' = "assign"
  /\ hist' = Drawn(dailySubjects')
  /\ UNCHANGED <<catalog, schedule, isGenerating, error, budget, newSchedule,
                 cls, day, assigned, attempts, visits>>

\* Where the loops of lines 99-132 go after the last period of a (class, day).
AfterDay ==
  IF day < Len(catalog.days) THEN [cls |-> cls, day |-> day + 1, pc |-> "shuffle"]
  ELSE IF cls < Len(catalog.classes) THEN [cls |-> cls + 1, day |-> 1, pc |-> "shuffle"]
  ELSE [cls |-> cls, day |-> day, pc |-> "return"]

\* Lines 105-130: one teaching period of the current (class, day).
AssignPeriod ==
  /\ pc = "assign"
  /\ LET c == catalog.classes[cls]
         d == catalog.days[day]
         p == catalog.periods[period]
         r == ProcessPeriod(catalog, newSchedule, c, d, p, dailySubjects, subjectIndex)
     IN /\ newSchedule' = r.sched
        /\ assigned' = r.assigned
        /\ attempts' = r.attempts
        /\ subjectIndex' = r.subjectIndex
        /\ log' = Append(log, [cls |-> c, day |-> d, period |-> p,
                               start |-> subjectIndex, assigned |-> r.assigned,
                               attempts |-> r.attempts, thrown |-> r.thrown])
        /\ visits' = [visits EXCEPT ![<<c, d, p>>] = @ + 1]
        /\ IF r.thrown
           THEN /\ pc' = "catch"
                /\ UNCHANGED <<cls, day, period>>
           ELSE IF period < Len(catalog.periods)
           THEN /\ period' = period + 1
                /\ UNCHANGED <<cls, day, pc>>
           ELSE /\ period' = period
                /\ cls' = AfterDay.cls
                /\ day' = AfterDay.day
                /\ pc' = AfterDay.pc
  /\ UNCHANGED <<catalog, schedule, isGenerating, error, budget, dailySubjects,
                 hist>>

\* Lines 134, 58 and 62: the grid is returned and becomes the schedule shown.
ReturnSchedule ==
  /\ pc = "return"
  /\ schedule' = newSchedule
  /\ isGenerating' = FALSE
  /\ pc' = "idle"
  /\ UNCHANGED <<catalog, error, budget, newSchedule, cls, day, period,
                 dailySubjects, subjectIndex, assigned, attempts, log, visits,
                 hist>>

\* The message of the TypeError the for-of of line 114 raises.
NotIterable == "availableTeachers is not iterable"

\* Mutant: without the finally block, a throw leaves isGenerating set.
CatchError_NoFinally ==
  /\ pc = "catch"
  /\ error' = NotIterable
  /\ pc' = "idle"
  /\ UNCHANGED <<catalog, schedule, isGenerating, budget, newSchedule, cls, day,
                 period, dailySubjects, subjectIndex, assigned, attempts, log,
                 visits, hist>>

\* Mutant: the catch block shows what buildSchedule had filled in so far.
CatchError_PublishPartial ==
  /\ pc = "catch"
  /\ error' = NotIterable
  /\ schedule' = newSchedule
  /\ isGenerating' = FALSE
  /\ pc' = "idle"
  /\ UNCHANGED <<catalog, budget, newSchedule, cls, day, period,
                 dailySubjects, subjectIndex, assigned, attempts, log, visits,
                 hist>>

\* Lines 59-62: buildSchedule threw; the message becomes the error shown.
CatchError ==
  /\ pc = "catch"
  /\ error' = NotIterable
  /\ isGenerating' = FALSE
  /\ pc' = "idle"
  /\ UNCHANGED <<catalog, schedule, budget, newSchedule, cls, day, period,
                 dailySubjects, subjectIndex, assigned, attempts, log, visits,
                 hist>>

Next ==
  \/ generateSchedule
  \/ InitializeGrid
  \/ Shuffle
  \/ AssignPeriod
  \/ ReturnSchedule
  \/ CatchError

Spec == Init /\ [][Next]_vars

\* The timer callback of lines 55-64 fires once armed and, being synchronous
\* code, runs to its end; the click of the button is the user's and is not
\* forced.
Build ==
  \/ InitializeGrid
  \/ Shuffle
  \/ AssignPeriod
  \/ ReturnSchedule
  \/ CatchError

FairSpec == Spec /\ WF_vars(Build)

\* The component as mounted, followed for several generate requests over the
\* smaller catalogs.
InitUI ==
  /\ catalog \in UICatalogs
  /\ schedule = NoSchedule
  /\ isGenerating = FALSE
  /\ error = NoError
  /\ pc = "idle"
  /\ budget = MaxRequests
  /\ newSchedule = NoSchedule
  /\ cls = 0 /\ day = 0 /\ period = 0
  /\ dailySubjects = <<>>
  /\ subjectIndex = 0
  /\ assigned = FALSE
  /\ attempts = 0
  /\ log = <<>>
  /\ visits = <<>>
  /\ hist = NoHistory

UISpec == InitUI /\ [][Next]_vars

FairUISpec == UISpec /\ WF_vars(Build)

\* ------------------------------------------------------ what the claims use
\* The grids that exist: the one under construction and the one shown.
Grids == {g \in {newSchedule, schedule} : g # NoSchedule}

Classes == Range(catalog.classes)
Days == Range(catalog.days)
Teaching == Range(catalog.periods)

\* The catalog the specification takes for granted: classes, days and
\* subjects, and at least one teacher for every subject.
WellFormed ==
  /\ catalog.classes # <<>> /\ catalog.days # <<>> /\ catalog.subjects # <<>>
  /\ \A s \in Range(catalog.subjects) :
       s \in DOMAIN catalog.teachers /\ catalog.teachers[s] # <<>>

\* A build has run to its return and its grid is the schedule shown.
Returned == pc = "idle" /\ schedule # NoSchedule

\* ---------------------------------------------------------------------- C1
NoDoubleBooking(g) ==
  \A d \in Days, p \in Teaching, c1 \in Classes, c2 \in Classes :
    (c1 # c2 /\ IsObject(g[c1][d][p]) /\ IsObject(g[c2][d][p]))
      => g[c1][d][p].teacher # g[c2][d][p].teacher

\* C1: no double-booking.  In the grid under construction after every step of
\* the build, and in the schedule returned, two distinct classes that both
\* hold an assignment at the same day and teaching period have different
\* teachers, whatever the rotations.
C1_NoDoubleBooking == \A g \in Grids : NoDoubleBooking(g)

\* Two classes teach at the same day and period of a returned schedule, and one
\* of them had to pass over a teacher the other holds.
C1_Witness ==
  /\ Returned
  /\ \E d \in Days, p \in Teaching, c1 \in Classes, c2 \in Classes :
       /\ c1 # c2
       /\ IsObject(schedule[c1][d][p]) /\ IsObject(schedule[c2][d][p])
       /\ schedule[c1][d][p].subject = schedule[c2][d][p].subject

\* ---------------------------------------------------------------------- C2
GridComplete(g) ==
  /\ DOMAIN g = Classes
  /\ \A c \in Classes :
       /\ DOMAIN g[c] = Days
       /\ \A d \in Days :
            /\ DOMAIN g[c][d] = Range(catalog.layout)
            /\ \A p \in Range(catalog.layout) :
                 IF IsBreak(p)
                 THEN g[c][d][p] = BreakMarker(p)
                 ELSE \/ g[c][d][p] = Free
                      \/ /\ IsObject(g[c][d][p])
                         /\ DOMAIN g[c][d][p] = {"kind", "subject", "teacher"}

\* C2: grid completeness.  From initialization on, and in the schedule
\* returned, the grid has exactly the catalog's classes, each with exactly the
\* catalog's days, each with exactly the periods of the layout; Recess and
\* Lunch hold their own marker and a teaching period holds an assignment or
\* 'Free'.
C2_GridComplete == \A g \in Grids : GridComplete(g)

\* A returned schedule whose layout has both breaks, with an assignment and a
\* 'Free' among its teaching periods.
C2_Witness ==
  /\ Returned
  /\ "Lunch" \in Range(catalog.layout)
  /\ \E c \in Classes, d \in Days, p \in Teaching : IsObject(schedule[c][d][p])
  /\ \E c \in Classes, d \in Days, p \in Teaching : schedule[c][d][p] = Free

\* ---------------------------------------------------------------------- C3
SubjectValid(g) ==
  \A c \in Classes, d \in Days, p \in Teaching :
    IsObject(g[c][d][p]) =>
      /\ g[c][d][p].subject \in Range(catalog.subjects)
      /\ g[c][d][p].subject \in DOMAIN catalog.teachers
      /\ g[c][d][p].teacher \in Range(catalog.teachers[g[c][d][p].subject])

\* C3: subject validity.  Every assignment in a grid has a subject of the
\* catalog and a teacher of that subject's list in TEACHERS.
C3_SubjectValidity == \A g \in Grids : SubjectValid(g)

\* A returned schedule with an assignment of a subject other than the first
\* of SUBJECTS, taught by the second teacher of its list.
C3_Witness ==
  /\ Returned
  /\ \E c \in Classes, d \in Days, p \in Teaching :
       /\ IsObject(schedule[c][d][p])
       /\ schedule[c][d][p].subject # catalog.subjects[1]
       /\ Len(catalog.teachers[schedule[c][d][p].subject]) >= 2
       /\ schedule[c][d][p].teacher = catalog.teachers[schedule[c][d][p].subject][2]

\* ---------------------------------------------------------------------- C4
\* The log holds the periods processed under the current dailySubjects, all of
\* one (class, day).  Entries i < j are successive successes.
SuccessiveSuccesses(i, j) ==
  /\ i \in DOMAIN log /\ j \in DOMAIN log /\ i < j
  /\ log[i].assigned /\ log[j].assigned
  /\ \A m \in (i + 1)..(j - 1) : ~log[m].assigned

\* The rotation offset (0-based) of the subject a successful entry wrote.
OffsetUsed(e) ==
  IndexOf(dailySubjects, newSchedule[e.cls][e.day][e.period].subject) - 1

\* C4 as stated: within a (class, day), a success that uses the subject at
\* rotation offset i is followed by a success that uses the subject at offset
\* (i + 1) mod N.  The code violates it, already for well-formed catalogs.
C4_SubjectOffsetsAdvanceByOne ==
  WellFormed =>
    \A i \in DOMAIN log, j \in DOMAIN log :
      SuccessiveSuccesses(i, j) =>
        OffsetUsed(log[j]) = (OffsetUsed(log[i]) + 1) % N

\* C4 amended: it is the offset the candidate search starts at (the pointer)
\* that advances by one.  Within a (class, day) the first search starts at
\* offset 0; after a success whose search started at offset i the next search
\* starts at (i + 1) mod N, after a period that ends Free at the same offset;
\* the subject a success uses is the one at offset (start + k) mod N, k the
\* number of candidates passed over.
C4_StartOffsetsAdvanceByOne ==
  /\ \A i \in DOMAIN log :
       /\ i = 1 => log[i].start = 0
       /\ (i + 1) \in DOMAIN log =>
            log[i + 1].start = log[i].start + (IF log[i].assigned THEN 1 ELSE 0)
       /\ log[i].assigned =>
            OffsetUsed(log[i]) = (log[i].start + log[i].attempts - 1) % N
  /\ \A i \in DOMAIN log, j \in DOMAIN log :
       SuccessiveSuccesses(i, j) =>
         log[j].start % N = ((log[i].start % N) + 1) % N

\* Two successive successes of one (class, day) that use the same subject: the
\* first passed over a candidate, the second did not.
C4_Witness ==
  WellFormed /\ \E i \in DOMAIN log, j \in DOMAIN log :
    /\ SuccessiveSuccesses(i, j)
    /\ log[i].attempts = 2 /\ log[j].attempts = 1
    /\ OffsetUsed(log[j]) = OffsetUsed(log[i])

\* ---------------------------------------------------------------------- C5
HasEmptyTeacherList ==
  \E s \in DOMAIN catalog.teachers : catalog.teachers[s] = <<>>

\* C5 as stated: with a subject whose teacher list is empty, no slot is ever
\* written with an assignment, no schedule reaches the caller and the request
\* ends with an error.  The code has no such validation.
C5_EmptyListIsConfigurationError ==
  HasEmptyTeacherList =>
    /\ \A g \in Grids : \A c \in Classes, d \in Days, p \in Teaching :
         ~IsObject(g[c][d][p])
    /\ schedule = NoSchedule
    /\ (pc = "idle" /\ budget = 0) => error # NoError

\* ---------------------------------------------------------------------- C6
\* The safety part of C6.
C6_Safe ==
  WellFormed =>
    /\ pc # "catch" /\ error = NoError
    /\ attempts <= N
    /\ \A i \in DOMAIN log :
         /\ ~log[i].thrown
         /\ log[i].attempts \in 1..N
         /\ ~log[i].assigned =>
              /\ log[i].attempts = N
              /\ newSchedule[log[i].cls][log[i].day][log[i].period] = Free
    /\ \A x \in DOMAIN visits : visits[x] <= 1
    /\ pc = "return" => \A x \in DOMAIN visits : visits[x] = 1
    /\ (pc = "idle" /\ budget = 0) =>
         /\ ~isGenerating
         /\ schedule = newSchedule
         /\ DOMAIN visits = Classes \X Days \X Teaching
         /\ \A x \in DOMAIN visits : visits[x] = 1
         /\ GridComplete(schedule)

\* C6: completion.  For a well-formed catalog and any rotations the build never
\* throws, tries between 1 and N candidates per slot, processes every (class,
\* day, teaching period) exactly once and, once started, ends with the grid
\* returned as the schedule and no error; a slot no candidate could fill is
\* 'Free'.
C6_Completion ==
  /\ []C6_Safe
  /\ (WellFormed /\ pc = "pending") ~> (Returned /\ error = NoError)

\* A well-formed catalog whose returned schedule has a 'Free' slot.
C6_Witness ==
  /\ WellFormed
  /\ Returned
  /\ \E c \in Classes, d \in Days, p \in Teaching : schedule[c][d][p] = Free

\* ---------------------------------------------------------------------- C7
\* Every teacher of the catalog.
AllTeachers == UNION {Range(catalog.teachers[s]) : s \in DOMAIN catalog.teachers}

AssignedAt(g, d, p) == {c \in Classes : IsObject(g[c][d][p])}

\* The scenario of the specification: 2 classes, 1 day, 1 teaching period and
\* the only subject Math with the only teacher.
ContentionScenario ==
  /\ Len(catalog.classes) = 2 /\ Len(catalog.days) = 1 /\ Len(catalog.periods) = 1
  /\ catalog.subjects = <<"Math">>
  /\ DOMAIN catalog.teachers = {"Math"}
  /\ catalog.teachers["Math"] = <<"Mr. Smith">>

\* C7: single-teacher contention.  In the scenario the returned schedule has
\* exactly one class with (Math, Mr. Smith) and the other class 'Free'; in any
\* catalog with one teacher in all, every grid has at most one class assigned
\* per (day, period), with that teacher, and all the others 'Free'.
C7_SingleTeacherContention ==
  /\ (ContentionScenario /\ Returned) =>
       \A d \in Days, p \in Teaching :
         /\ Cardinality(AssignedAt(schedule, d, p)) = 1
         /\ \A c \in Classes :
              \/ schedule[c][d][p] = SlotAssignment("Math", "Mr. Smith")
              \/ schedule[c][d][p] = Free
  /\ Cardinality(AllTeachers) = 1 =>
       \A g \in Grids : \A d \in Days, p \in Teaching :
         /\ Cardinality(AssignedAt(g, d, p)) <= 1
         /\ \A c \in Classes :
              \/ c \in AssignedAt(g, d, p) /\ g[c][d][p].teacher \in AllTeachers
              \/ g[c][d][p] = Free

\* The scenario's schedule as returned: one class taught, the other 'Free'.
C7_Witness ==
  /\ ContentionScenario
  /\ Returned
  /\ \E c1 \in Classes, c2 \in Classes :
       /\ schedule[c1]["Monday"]["1"] = SlotAssignment("Math", "Mr. Smith")
       /\ schedule[c2]["Monday"]["1"] = Free

\* ---------------------------------------------------------------------- C8
FirstClass == catalog.classes[1]

\* Every subject has a teacher and a day's teaching periods are no more than
\* the subjects.
CoveragePremise == WellFormed /\ Len(catalog.periods) <= N

\* C8: full coverage without repeats for the first class.  Under the premise,
\* every period the first class has been taken through holds an assignment,
\* the k-th period of the day under way holds the subject at rotation index
\* k - 1 with the first teacher of that subject's list, and in the schedule
\* returned every teaching period of every day of the first class holds an
\* assignment with the first-listed teacher and no subject twice a day.
C8_FirstClassFullCoverage ==
  CoveragePremise =>
    /\ \A i \in DOMAIN log :
         log[i].cls = FirstClass =>
           /\ log[i].period = catalog.periods[i]
           /\ log[i].assigned
           /\ newSchedule[FirstClass][log[i].day][log[i].period] =
                SlotAssignment(dailySubjects[i], catalog.teachers[dailySubjects[i]][1])
    /\ \A x \in DOMAIN visits :
         (x[1] = FirstClass /\ visits[x] > 0) =>
           IsObject(newSchedule[x[1]][x[2]][x[3]])
    /\ Returned =>
         \A d \in Days :
           /\ \A p \in Teaching :
                /\ IsObject(schedule[FirstClass][d][p])
                /\ schedule[FirstClass][d][p].teacher =
                     catalog.teachers[schedule[FirstClass][d][p].subject][1]
           /\ \A p \in Teaching, q \in Teaching :
                p # q => schedule[FirstClass][d][p].subject #
                           schedule[FirstClass][d][q].subject

\* A returned schedule of a catalog with as many periods as subjects, at least
\* two, whose first class starts a day with another subject than the first of
\* SUBJECTS.
C8_Witness ==
  /\ CoveragePremise
  /\ Returned
  /\ N >= 2 /\ Len(catalog.periods) = N
  /\ \E d \in Days :
       /\ IsObject(schedule[FirstClass][d][catalog.periods[1]])
       /\ schedule[FirstClass][d][catalog.periods[1]].subject # catalog.subjects[1]

\* ---------------------------------------------------------------------- C9
\* Positions i, i + 1, i + 2 of the layout.
Triples == {i \in 1..Len(catalog.layout) : i + 2 <= Len(catalog.layout)}

\* C9: no three consecutive teaching periods.  Every three adjacent positions
\* of the layout contain a break, so in no grid does a class, or a teacher,
\* have assignments in three adjacent positions of a day.
C9_NoThreeConsecutive ==
  /\ \A i \in Triples : \E j \in i..(i + 2) : IsBreak(catalog.layout[j])
  /\ \A g \in Grids : \A d \in Days, i \in Triples :
       /\ \A c \in Classes :
            ~(\A j \in i..(i + 2) : IsObject(g[c][d][catalog.layout[j]]))
       /\ \A t \in AllTeachers :
            ~(\A j \in i..(i + 2) : \E c \in Classes :
                /\ IsObject(g[c][d][catalog.layout[j]])
                /\ g[c][d][catalog.layout[j]].teacher = t)

\* A returned schedule over the whole layout in which a class is taught in all
\* six teaching periods of a day.
C9_Witness ==
  /\ Returned
  /\ catalog.layout = PERIODS
  /\ \E c \in Classes, d \in Days : \A p \in Teaching : IsObject(schedule[c][d][p])

\* --------------------------------------------------------------------- C10
\* Every subject of the catalog has an entry in TEACHERS.
AllListed == \A s \in Range(catalog.subjects) : s \in DOMAIN catalog.teachers

\* Teacher t is held by no class at (d, p) of the grid under construction.
TeacherFree(t, d, p) ==
  \A c \in Classes :
    ~(IsObject(newSchedule[c][d][p]) /\ newSchedule[c][d][p].teacher = t)

\* The subject at rotation offset (subjectIndex + k) mod N.
SubjectAt(k) == dailySubjects[((subjectIndex + k) % N) + 1]

\* The k in 0..N-1 whose subject has a teacher free at (d, p).
Fillable(d, p) ==
  {k \in 0..(N - 1) :
     \E t \in Range(catalog.teachers[SubjectAt(k)]) : TeacherFree(t, d, p)}

\* What the greedy rule selects at (d, p): the subject of the least fillable k
\* and the first teacher of its list that is free.
GreedyValue(d, p) ==
  LET k == CHOOSE x \in Fillable(d, p) : \A y \in Fillable(d, p) : x <= y
      list == catalog.teachers[SubjectAt(k)]
      j == CHOOSE x \in DOMAIN list :
             /\ TeacherFree(list[x], d, p)
             /\ \A y \in DOMAIN list : TeacherFree(list[y], d, p) => x <= y
  IN SlotAssignment(SubjectAt(k), list[j])

\* C10: greedy selection.  Processing slot (class, day, period) with rotation R
\* and pointer s, when some candidate has a free teacher, writes
\* (R[(s + k) mod N], t) for the least such k and the first free teacher t of
\* that subject's list.
C10_GreedySelection ==
  [][(pc = "assign" /\ AllListed) =>
       LET c == catalog.classes[cls]
           d == catalog.days[day]
           p == catalog.periods[period]
       IN Fillable(d, p) # {} => newSchedule'[c][d][p] = GreedyValue(d, p)]_vars

\* The slot just processed was filled after a candidate was passed over, with
\* the second teacher of the list because another class holds the first.
C10_Witness ==
  /\ AllListed
  /\ log # <<>>
  /\ LET e == log[Len(log)]
         slot == newSchedule[e.cls][e.day][e.period]
     IN /\ e.assigned
        /\ e.attempts >= 2
        /\ Len(catalog.teachers[slot.subject]) >= 2
        /\ slot.teacher = catalog.teachers[slot.subject][2]
        /\ \E c \in Classes :
             /\ IsObject(newSchedule[c][e.day][e.period])
             /\ newSchedule[c][e.day][e.period].teacher =
                  catalog.teachers[slot.subject][1]

\* --------------------------------------------------------------------- C11
\* In grid g every teacher of the catalog is held at (d, p) by a class other
\* than c.
AllHeldByOthers(g, c, d, p) ==
  \A t \in AllTeachers :
    \E c2 \in Classes \ {c} : IsObject(g[c2][d][p]) /\ g[c2][d][p].teacher = t

\* The returned schedule's part of C11.
C11_ReturnedFreeIff ==
  Returned =>
    \A c \in Classes, d \in Days, p \in Teaching :
      (schedule[c][d][p] = Free) <=> AllHeldByOthers(schedule, c, d, p)

\* C11: Free exactly when unfillable.  A step that processes slot (c, d, p)
\* without throwing leaves it 'Free' if and only if, before the step, every
\* teacher of every subject was held at (d, p) by another class; and a slot of
\* the returned schedule is 'Free' if and only if every teacher is held at its
\* (day, period) by another class.
C11_FreeIffUnfillable ==
  /\ [][(pc = "assign" /\ pc' # "catch") =>
         LET c == catalog.classes[cls]
             d == catalog.days[day]
             p == catalog.periods[period]
         IN (newSchedule'[c][d][p] = Free) <=> AllHeldByOthers(newSchedule, c, d, p)]_vars
  /\ []C11_ReturnedFreeIff

\* A returned schedule of a catalog with at least two teachers in which a
\* class is 'Free' at a (day, period) where two other classes teach.
C11_Witness ==
  /\ Returned
  /\ AllListed
  /\ Cardinality(AllTeachers) >= 2
  /\ \E c \in Classes, d \in Days, p \in Teaching :
       /\ schedule[c][d][p] = Free
       /\ Cardinality(AssignedAt(schedule, d, p)) >= 2

\* --------------------------------------------------------------------- C12
\* The assignments the current (class, day) holds in its first n periods.
AssignedBefore(n) ==
  Cardinality({q \in 1..n :
     IsObject(newSchedule[catalog.classes[cls]][catalog.days[day]][catalog.periods[q]])})

\* The state part of C12: before a period is processed the pointer is the
\* number of assignments made so far in this (class, day), each processed
\* period started from the number made before it, and every rotation index
\* tried was within 0..N-1.
C12_PointerCounts ==
  /\ pc = "assign" =>
       /\ Len(log) = period - 1
       /\ subjectIndex = Cardinality({i \in DOMAIN log : log[i].assigned})
       /\ subjectIndex = AssignedBefore(period - 1)
       /\ period = 1 => subjectIndex = 0
  /\ \A i \in DOMAIN log :
       /\ log[i].start = Cardinality({j \in 1..(i - 1) : log[j].assigned})
       /\ \A k \in 0..(log[i].attempts - 1) : (log[i].start + k) % N \in 0..(N - 1)

\* C12: rotation pointer.  Every (class, day) starts with the pointer at 0
\* whatever the pointer of the (class, day) before was; processing a period
\* adds exactly 1 when the slot got an assignment and nothing when it ended
\* 'Free'; so before any period the pointer is the number of assignments
\* already made in that (class, day), and the rotation indexes are in 0..N-1.
C12_RotationPointer ==
  /\ []C12_PointerCounts
  /\ [][pc = "shuffle" => subjectIndex' = 0]_vars
  /\ [][pc = "assign" =>
         LET c == catalog.classes[cls]
             d == catalog.days[day]
             p == catalog.periods[period]
         IN subjectIndex' =
              subjectIndex + (IF IsObject(newSchedule'[c][d][p]) THEN 1 ELSE 0)]_vars

\* The first class starts its second day with the pointer at 0 after a first
\* day of at least two assignments.
C12_Witness ==
  /\ pc = "assign" /\ cls = 1 /\ day = 2 /\ period = 1
  /\ subjectIndex = 0
  /\ Cardinality({p \in Teaching :
        IsObject(newSchedule[FirstClass][catalog.days[1]][p])}) >= 2

\* --------------------------------------------------------------------- C13
\* The teachers of the catalog compiled into the program.
BuiltInTeachers == UNION {Range(TEACHERS[s]) : s \in Range(SUBJECTS)}

\* What keeps the built-in catalog from the fallback: every subject has its
\* entry in TEACHERS and there are at least as many teachers as classes (10
\* teachers for 3 classes).
TeachersSuffice ==
  /\ AllListed
  /\ Cardinality(AllTeachers) >= Len(catalog.classes)

\* C13: no Free slot with the built-in catalog.  The built-in catalog has an
\* entry for each of its 6 subjects and 10 distinct teachers for 3 classes; and
\* in every catalog with an entry for every subject and at least as many
\* teachers as classes, whatever the rotations, no period is processed with
\* the fallback branch and no teaching slot of the returned schedule is 'Free'.
C13_NoFreeWhenTeachersSuffice ==
  /\ Range(SUBJECTS) = DOMAIN TEACHERS
  /\ Len(SUBJECTS) = 6 /\ Len(CLASSES) = 3
  /\ Cardinality(BuiltInTeachers) = 10
  /\ Cardinality(BuiltInTeachers) >= Len(CLASSES)
  /\ TeachersSuffice =>
       /\ pc # "catch"
       /\ \A i \in DOMAIN log : log[i].assigned
       /\ \A x \in DOMAIN visits :
            visits[x] > 0 => IsObject(newSchedule[x[1]][x[2]][x[3]])
       /\ Returned =>
            \A c \in Classes, d \in Days, p \in Teaching : IsObject(schedule[c][d][p])

\* A returned schedule of all three classes with exactly three teachers, one
\* of them second in its list: the third class is left the last teacher.
C13_Witness ==
  /\ TeachersSuffice
  /\ Returned
  /\ catalog.classes = CLASSES
  /\ Cardinality(AllTeachers) = 3
  /\ \E d \in Days, p \in Teaching :
       /\ Cardinality(AssignedAt(schedule, d, p)) = 3
       /\ schedule[CLASSES[3]][d][p].teacher = "Ms. Davis"

\* --------------------------------------------------------------------- C14
\* Every entry of the grid under construction: teaching slots and breaks.
Entries == Classes \X Days \X Range(catalog.layout)

Entry(g, x) == g[x[1]][x[2]][x[3]]

\* C14: no backtracking and local writes.  A step of the assignment phase
\* changes at most the slot it processes; an entry that holds an assignment
\* and a break marker are left as they are by every step of the build after
\* the initialization; and no slot is processed twice in one build.
C14_LocalWrites ==
  /\ [][pc = "assign" =>
         LET here == <<catalog.classes[cls], catalog.days[day],
                       catalog.periods[period]>>
         IN \A x \in Entries :
              /\ x # here => Entry(newSchedule', x) = Entry(newSchedule, x)
              /\ IsObject(Entry(newSchedule, x)) =>
                   Entry(newSchedule', x) = Entry(newSchedule, x)
              /\ IsBreak(x[3]) => Entry(newSchedule', x) = BreakMarker(x[3])]_vars
  /\ [][(pc \in {"idle", "shuffle", "return", "catch"}) =>
         newSchedule' = newSchedule]_vars
  /\ [](\A x \in DOMAIN visits : visits[x] <= 1)

\* The second class has just fallen back to 'Free' at a period the first class
\* keeps its assignment at, in a day with a recess.
C14_Witness ==
  /\ cls = 2 /\ log # <<>>
  /\ "Recess" \in Range(catalog.layout)
  /\ LET e == log[Len(log)]
     IN /\ ~e.assigned /\ ~e.thrown
        /\ newSchedule[e.cls][e.day][e.period] = Free
        /\ IsObject(newSchedule[FirstClass][e.day][e.period])

\* --------------------------------------------------------------------- C15
\* Some class holds teacher t at (d, p) in grid g.
HeldAt(g, t, d, p) ==
  \E c \in Classes : IsObject(g[c][d][p]) /\ g[c][d][p].teacher = t

\* C15: availability query.  On every grid under construction, for every
\* teacher of the program (of the catalog or not), day and teaching period,
\* canAssignTeacher is false exactly when some class's slot at that day and
\* period holds an assignment with that teacher.
C15_AvailabilityQuery ==
  newSchedule # NoSchedule =>
    \A t \in BuiltInTeachers, d \in Days, p \in Teaching :
      canAssignTeacher(catalog, newSchedule, t, d, p) <=> ~HeldAt(newSchedule, t, d, p)

\* A teacher taken at one (day, period), available at another period of the
\* day where every class's slot is 'Free', and available at the same period of
\* another day, where the teacher is held at a different period.
C15_Witness ==
  /\ newSchedule # NoSchedule
  /\ \E t \in AllTeachers, d, d2 \in Days, p, p2 \in Teaching :
       /\ d # d2 /\ p # p2
       /\ ~canAssignTeacher(catalog, newSchedule, t, d, p)
       /\ HeldAt(newSchedule, t, d, p)
       /\ canAssignTeacher(catalog, newSchedule, t, d, p2)
       /\ \A c \in Classes : newSchedule[c][d][p2] = Free
       /\ canAssignTeacher(catalog, newSchedule, t, d2, p)
       /\ HeldAt(newSchedule, t, d2, p2)

\* --------------------------------------------------------------------- C16
\* Every teaching slot of the grid under construction has been processed.
RanToCompletion ==
  /\ DOMAIN visits = Classes \X Days \X Teaching
  /\ \A x \in DOMAIN visits : visits[x] = 1

\* C16: no partial schedule is ever visible.  The schedule shown changes only
\* in the step that returns from buildSchedule, to the grid of a build that
\* processed every teaching slot; in particular no step of a build under way
\* changes it and the step that catches a throw leaves it as it was; so what
\* is shown is null or a grid with every entry in place.
C16_NoPartialSchedule ==
  /\ [][schedule' # schedule =>
         /\ pc = "return"
         /\ schedule' = newSchedule
         /\ RanToCompletion]_vars
  /\ [][(pc \in {"pending", "shuffle", "assign", "catch"}) =>
         schedule' = schedule]_vars
  /\ [](schedule # NoSchedule => GridComplete(schedule))

\* A build that threw after writing an assignment, with the schedule of the
\* build before it still shown.
C16_Witness ==
  /\ pc = "idle" /\ error = NotIterable
  /\ schedule # NoSchedule
  /\ newSchedule # schedule
  /\ \E x \in Classes \X Days \X Teaching :
       /\ IsObject(newSchedule[x[1]][x[2]][x[3]])
       /\ visits[x] = 1
  /\ log # <<>> /\ log[Len(log)].thrown
  /\ ~IsObject(newSchedule[catalog.classes[cls]][catalog.days[day]]
                          [catalog.periods[period]])

\* --------------------------------------------------------------------- C17
\* The step that ends a request by showing the schedule built.
EndsWithSchedule ==
  /\ pc = "return"
  /\ schedule' = newSchedule
  /\ error' = NoError

\* The step that ends a request by showing an error message.
EndsWithError ==
  /\ pc = "catch"
  /\ error' # NoError
  /\ schedule' = schedule

\* C17: the lifecycle of a generate request.  The step that starts a request
\* sets isGenerating and clears the error; isGenerating is set exactly while a
\* build is pending or under way, and while it is set no request can start
\* (the button is disabled), so one build at most is pending; the step that
\* resets isGenerating either shows the newly built schedule and no error, or
\* shows an error and keeps the schedule; and every request started leads to
\* isGenerating reset.
C17_RequestLifecycle ==
  /\ [][budget' # budget =>
         /\ ~isGenerating /\ isGenerating'
         /\ error' = NoError
         /\ pc = "idle" /\ pc' = "pending"]_vars
  /\ [](isGenerating <=> pc # "idle")
  /\ [](isGenerating => ~ENABLED generateSchedule)
  /\ [](isGenerating => error = NoError)
  /\ [][(isGenerating /\ ~isGenerating') =>
         /\ EndsWithSchedule \/ EndsWithError
         /\ ~(EndsWithSchedule /\ EndsWithError)]_vars
  /\ [][(~isGenerating /\ isGenerating') => budget' = budget - 1]_vars
  /\ isGenerating ~> ~isGenerating

\* The third request is pending: the first showed its schedule, the second
\* threw and left its grid behind, and the error it set is cleared.
C17_Witness ==
  /\ pc = "pending" /\ isGenerating
  /\ budget = MaxRequests - 3
  /\ error = NoError
  /\ schedule # NoSchedule
  /\ newSchedule # schedule
  /\ log # <<>> /\ log[Len(log)].thrown

\* --------------------------------------------------------------------- C18
\* The build before the one under way returned and its rotations are known.
Comparable == hist.prev # <<>>

\* C18: determinism up to the rotations.  A build that has drawn, for every
\* (class, day), the rotation the build before it drew over the same catalog
\* returns the very schedule that build returned, whatever schedule was shown
\* when each of them started; and every schedule shown, whatever the
\* rotations, has no double booking, is complete and pairs each subject with
\* one of its teachers.
C18_DeterminismUpToRotations ==
  /\ (pc = "return" /\ Comparable /\ hist.same) =>
       newSchedule = hist.prev[1].result
  /\ (pc = "idle" /\ error = NoError /\ Comparable /\ hist.same) =>
       schedule = hist.prev[1].result
  /\ schedule # NoSchedule =>
       /\ NoDoubleBooking(schedule)
       /\ GridComplete(schedule)
       /\ SubjectValid(schedule)

\* The third build is about to return what the second returned, having drawn
\* its rotations, in a catalog where classes compete for teachers; the second
\* had drawn other rotations than the first and returned another schedule.
C18_Witness ==
  /\ pc = "return" /\ Comparable /\ hist.same
  /\ hist.differed
  /\ Len(catalog.classes) >= 2
  /\ newSchedule = schedule
  /\ \E c \in Classes, d \in Days, p \in Teaching : IsObject(newSchedule[c][d][p])

====
